---------------------------- MODULE Spec2Model ----------------------------
(***************************************************************************)
(* The pause/unpause reconciler of crossplane-pause (reconciler.go).       *)
(*                                                                         *)
(* One managed resource lives in the API server (variable obj).  The       *)
(* reconciler reads it, decodes the PauseInfo it keeps in the annotation   *)
(* cloud.pingcap.com/pause-info, and pauses or unpauses the resource by    *)
(* writing the annotation crossplane.io/paused together with a new         *)
(* PauseInfo.  Other actors edit the resource between evaluations.         *)
(*                                                                         *)
(* Time is counted in ticks, TicksPerSecond of them to a second: the clock *)
(* of the process (time.Now, metav1.Now) has sub-second resolution, while  *)
(* a metav1.Time written to JSON keeps whole seconds only.  One evaluation *)
(* takes less than a tick: every clock read of one Reconcile call returns  *)
(* the same value.                                                         *)
(***************************************************************************)
EXTENDS Integers, Sequences, FiniteSets, TLC

VARIABLES
    obj,      \* the resource as stored in the API server
    present,  \* FALSE once the resource is gone from the API server
    now,      \* the wall clock, in ticks
    cfg,      \* the Reconciler's UnPausePollInterval and FrozenTimeDuration
    edits,    \* number of writes by other actors so far
    last      \* what the latest Reconcile call read, wrote and returned

vars == <<obj, present, now, cfg, edits, last>>

---------------------------------------------------------------------------
(* Bounds of the model. *)

\* Clock resolution: ticks per second.
TicksPerSecond == 2
\* The clock stops at this tick.
MaxTime == 4
\* Writes by actors other than the reconciler.
MaxEdits == 2

---------------------------------------------------------------------------
(* Go values: a pointer (or an optional field) is a sequence of length 0   *)
(* (nil, absent) or 1; a map[string]T is a function on a set of strings.   *)

Nil == <<>>
Ptr(x) == <<x>>
Deref(p) == p[1]

EmptyMap == [k \in {} |-> ""]
MapSet(m, key, v) == [k \in DOMAIN m \cup {key} |-> IF k = key THEN v ELSE m[k]]
\* Mutant: delete leaves the key in the map.
MapDelete_Keep(m, key) == m

MapDelete(m, key) == [k \in DOMAIN m \ {key} |-> m[k]]

AnnotationKeyReconciliationPaused == "crossplane.io/paused"
AnnotationKeyPauseInfo == "cloud.pingcap.com/pause-info"

\* xpv1.TypeReady, xpv1.TypeSynced and corev1.ConditionTrue.
TypeReady == "Ready"
TypeSynced == "Synced"
ConditionTrue == "True"

---------------------------------------------------------------------------
(* The PauseInfo codec. *)

\* metav1.Time.MarshalJSON: RFC 3339 with whole seconds.
MarshalTime(t) == t - (t % TicksPerSecond)

\* json.Marshal(info): "pause" is always written, the other fields only
\* when non-nil (omitempty).  The text is modelled by the JSON object it
\* denotes: a function from its member names to their values.
MarshalFields(info) ==
    {"pause"}
      \cup (IF info.Object = Nil THEN {} ELSE {"object"})
      \cup (IF info.LastPauseTime = Nil THEN {} ELSE {"lastPauseTime"})
      \cup (IF info.LastUnPauseTime = Nil THEN {} ELSE {"lastUnPauseTime"})
      \cup (IF info.ShouldUnpauseTime = Nil THEN {} ELSE {"shouldUnpauseTime"})

Marshal(info) ==
    [k \in MarshalFields(info) |->
        CASE k = "pause" -> info.Pause
          [] k = "object" -> Deref(info.Object)
          [] k = "lastPauseTime" -> MarshalTime(Deref(info.LastPauseTime))
          [] k = "lastUnPauseTime" -> MarshalTime(Deref(info.LastUnPauseTime))
          [] k = "shouldUnpauseTime" -> MarshalTime(Deref(info.ShouldUnpauseTime))]

\* An annotation value that is not JSON.
Malformed == [syntaxError |-> TRUE]

\* json.Unmarshal into new(PauseInfo): absent members keep the zero value.
Unmarshal(v) ==
    [Pause |-> IF "pause" \in DOMAIN v THEN v["pause"] ELSE FALSE,
     Object |-> IF "object" \in DOMAIN v THEN Ptr(v["object"]) ELSE Nil,
     LastPauseTime |->
        IF "lastPauseTime" \in DOMAIN v THEN Ptr(v["lastPauseTime"]) ELSE Nil,
     LastUnPauseTime |->
        IF "lastUnPauseTime" \in DOMAIN v THEN Ptr(v["lastUnPauseTime"]) ELSE Nil,
     ShouldUnpauseTime |->
        IF "shouldUnpauseTime" \in DOMAIN v THEN Ptr(v["shouldUnpauseTime"]) ELSE Nil]

\* Mutant: an annotation that does not decode counts as absent.
parsePauseInfo_Lenient(o) ==
    IF o.annotations = Nil \/ AnnotationKeyPauseInfo \notin DOMAIN Deref(o.annotations)
    THEN [info |-> Nil, err |-> FALSE]
    ELSE LET v == Deref(o.annotations)[AnnotationKeyPauseInfo]
         IN IF "syntaxError" \in DOMAIN v
            THEN [info |-> Nil, err |-> FALSE]
            ELSE [info |-> Ptr(Unmarshal(v)), err |-> FALSE]

\* parsePauseInfo: [info, err]; info is nil when the annotation is absent.
parsePauseInfo(o) ==
    IF o.annotations = Nil \/ AnnotationKeyPauseInfo \notin DOMAIN Deref(o.annotations)
    THEN [info |-> Nil, err |-> FALSE]
    ELSE LET v == Deref(o.annotations)[AnnotationKeyPauseInfo]
         IN IF "syntaxError" \in DOMAIN v
            THEN [info |-> Nil, err |-> TRUE]
            ELSE [info |-> Ptr(Unmarshal(v)), err |-> FALSE]

\* info = &PauseInfo{Pause: false}
NewPauseInfo ==
    [Pause |-> FALSE, Object |-> Nil, LastPauseTime |-> Nil,
     LastUnPauseTime |-> Nil, ShouldUnpauseTime |-> Nil]

---------------------------------------------------------------------------
(* Reading the unstructured resource. *)

\* ann[key] of a map[string]string that may be nil: "" when absent.
AnnotationValue(o, key) ==
    IF o.annotations # Nil /\ key \in DOMAIN Deref(o.annotations)
    THEN Deref(o.annotations)[key]
    ELSE ""

\* Mutant: no value of the annotation counts as paused.
isPaused_Never(v) == FALSE

isPaused(v) == v = "true"

\* unstructured.RemoveNestedField(obj.Object, "metadata", "annotations", key):
\* deletes the key from the map when the map is there; the map itself stays.
RemoveAnnotation(o, key) ==
    IF o.annotations = Nil
    THEN o
    ELSE [o EXCEPT !.annotations = Ptr(MapDelete(Deref(o.annotations), key))]

\* getCondition: the condition of the given type, nil when there is none.
getCondition(o, ty) ==
    IF ty \in DOMAIN o.conditions THEN Ptr(o.conditions[ty]) ELSE Nil

\* Mutant: any condition that is there counts as true.
NotTrue_OnlyAbsent(condition) == condition = Nil

\* condition == nil || condition.Status != corev1.ConditionTrue
NotTrue(condition) ==
    condition = Nil \/ Deref(condition) # ConditionTrue

\* Mutant: the deletion timestamp is never looked at.
IsDeleted_Never(o) == FALSE

\* !obj.GetDeletionTimestamp().IsZero()
IsDeleted(o) == o.deletionTimestamp # Nil

---------------------------------------------------------------------------
(* Drift detection. *)

\* unstructured.NestedMap(obj.Object, fields...): the map and whether it is
\* there, for the regions "spec", "annotations" and "labels".
NestedMap(o, field) ==
    [val |-> IF o[field] = Nil THEN EmptyMap ELSE Deref(o[field]),
     ok |-> o[field] # Nil]

checkFieldEqual(obj1, obj2, field) ==
    LET spec1 == NestedMap(obj1, field)
        spec2 == NestedMap(obj2, field)
    IN  IF spec1.ok # spec2.ok
        THEN FALSE
        ELSE IF ~spec1.ok
             THEN TRUE            \* both not exist
             ELSE spec1.val = spec2.val

\* The copies of isUpdated with both annotations of the reconciler removed.
StripOwnAnnotations(o) ==
    RemoveAnnotation(RemoveAnnotation(o, AnnotationKeyReconciliationPaused),
                     AnnotationKeyPauseInfo)

isUpdated(old, new) ==
    LET o == StripOwnAnnotations(old)
        n == StripOwnAnnotations(new)
    IN  IF ~checkFieldEqual(o, n, "spec")
        THEN TRUE
        ELSE IF ~checkFieldEqual(o, n, "annotations")
             THEN TRUE
             ELSE ~checkFieldEqual(o, n, "labels")

---------------------------------------------------------------------------
(* The two transitions.  Each returns the resource and the PauseInfo as    *)
(* they are in memory afterwards, the updates it sent to the API server    *)
(* (at most one; ok tells whether the server accepted it) and whether it   *)
(* returned an error.                                                      *)

\* jitter := time.Duration(float64(rand.Int63n(int64(interval))) * 0.1)
Jitter(rnd) == rnd \div 10

\* Mutant: the random number itself is added, not a tenth of it.
ScheduledUnpauseTime_Undivided(t, interval, jitter) == t + interval + 10 * jitter

\* The time ensurePause stores in info.ShouldUnpauseTime: the code computes
\* shouldUnpauseTime.Add(jitter) and drops the result (time.Time.Add returns
\* a new value), so what is stored is the pause time plus the interval.
ScheduledUnpauseTime(t, interval, jitter) == t + interval

\* Mutant: the early return still sends the resource to the API server.
NoUpdate_Sends(o, info) ==
    [obj |-> o, info |-> info,
     updates |-> << [op |-> "none", ok |-> TRUE, obj |-> o] >>,
     err |-> FALSE, jitter |-> Nil]

NoUpdate(o, info) ==
    [obj |-> o, info |-> info, updates |-> <<>>, err |-> FALSE, jitter |-> Nil]

\* ensurePause(ctx, cli, obj, info, unPausePollInterval, reason) at time t,
\* with rnd the number rand.Int63n returns and updateOk the fate of
\* cli.Update.  info.Object points to obj itself, so the snapshot that is
\* marshalled is obj as it is at that moment: already without the pause-info
\* annotation, not yet with the new annotations.  The result of
\* shouldUnpauseTime.Add(jitter) is dropped by the code.
ensurePause(o, infoPtr, unPausePollInterval, t, rnd, updateOk) ==
    LET info == IF infoPtr = Nil THEN NewPauseInfo ELSE Deref(infoPtr)
    IN  IF info.Pause
        THEN NoUpdate(o, Ptr(info))
        ELSE
          LET shouldUnpauseTime ==
                  IF unPausePollInterval = Nil
                  THEN info.ShouldUnpauseTime
                  ELSE Ptr(ScheduledUnpauseTime(t, Deref(unPausePollInterval),
                                                Jitter(rnd)))
              jitter ==
                  IF unPausePollInterval = Nil THEN Nil ELSE Ptr(Jitter(rnd))
              o1 == RemoveAnnotation(o, AnnotationKeyPauseInfo)
              info1 == [info EXCEPT !.Pause = TRUE,
                                    !.LastPauseTime = Ptr(t),
                                    !.Object = Ptr(o1),
                                    !.ShouldUnpauseTime = shouldUnpauseTime]
              data == Marshal(info1)
              ann == IF o1.annotations = Nil THEN EmptyMap ELSE Deref(o1.annotations)
              ann1 == MapSet(MapSet(ann, AnnotationKeyReconciliationPaused, "true"),
                             AnnotationKeyPauseInfo, data)
              o2 == [o1 EXCEPT !.annotations = Ptr(ann1)]
          IN  [obj |-> o2, info |-> Ptr(info1),
               updates |-> << [op |-> "pause", ok |-> updateOk, obj |-> o2] >>,
               err |-> ~updateOk, jitter |-> jitter]

\* Mutant: the unpause keeps the snapshot and the scheduled unpause time.
UnpausedInfo_KeepsSnapshot(info, t) ==
    [info EXCEPT !.Pause = FALSE, !.LastUnPauseTime = Ptr(t)]

\* The PauseInfo ensureUnPause writes.
UnpausedInfo(info, t) ==
    [info EXCEPT !.Pause = FALSE,
                 !.Object = Nil,
                 !.LastUnPauseTime = Ptr(t),
                 !.ShouldUnpauseTime = Nil]

\* ensureUnPause(ctx, cli, obj, info, reason) at time t.
ensureUnPause(o, infoPtr, t, updateOk) ==
    IF infoPtr = Nil
    THEN NoUpdate(o, infoPtr)
    ELSE
      LET info == Deref(infoPtr)
      IN  IF ~info.Pause
          THEN NoUpdate(o, infoPtr)
          ELSE
            LET ann == IF o.annotations = Nil THEN EmptyMap ELSE Deref(o.annotations)
                info1 == UnpausedInfo(info, t)
                data == Marshal(info1)
                ann1 == MapSet(MapDelete(ann, AnnotationKeyReconciliationPaused),
                               AnnotationKeyPauseInfo, data)
                o1 == [o EXCEPT !.annotations = Ptr(ann1)]
            IN  [obj |-> o1, info |-> Ptr(info1),
                 updates |-> << [op |-> "unpause", ok |-> updateOk, obj |-> o1] >>,
                 err |-> ~updateOk, jitter |-> Nil]

---------------------------------------------------------------------------
(* Reconcile. *)

\* What a Reconcile call returns (ctrl.Result and the error, "" for nil),
\* with the updates it sent and the jitter it drew.
Return(requeueAfter, err, updates, jitter) ==
    [RequeueAfter |-> requeueAfter, err |-> err, updates |-> updates,
     jitter |-> jitter]

\* Mutant: the frozen time lasts one tick longer (not Before for After).
InFrozenTime_Inclusive(info, c, t) ==
    info.LastUnPauseTime # Nil
      /\ Deref(info.LastUnPauseTime) + c.FrozenTimeDuration >= t

\* info.LastUnPauseTime != nil &&
\*     info.LastUnPauseTime.Add(*r.FrozenTimeDuration).After(now)
InFrozenTime(info, c, t) ==
    info.LastUnPauseTime # Nil
      /\ Deref(info.LastUnPauseTime) + c.FrozenTimeDuration > t

\* Mutants: the due time itself still counts as before; the due time never
\* comes.
Before_OrAt(t, shouldUnpauseTime) == t <= shouldUnpauseTime
Before_Always(t, shouldUnpauseTime) == TRUE

\* now.Before(shouldUnpauseTime)
Before(t, shouldUnpauseTime) == t < shouldUnpauseTime

\* The part of Reconcile that handles info.Pause == false, entered with the
\* resource and the PauseInfo as they are in memory and the updates sent so
\* far.
ReconcileUnpaused(o, infoPtr, t, c, rnd, updateOk, sent) ==
    LET info == Deref(infoPtr)
        frozenUntil == Deref(info.LastUnPauseTime) + c.FrozenTimeDuration
        readyCondition == getCondition(o, TypeReady)
        syncedCondition == getCondition(o, TypeSynced)
    IN  IF InFrozenTime(info, c, t)
        THEN Return(frozenUntil - t, "", sent, Nil)
        ELSE IF NotTrue(readyCondition)
        THEN Return(0, "", sent, Nil)
        ELSE IF NotTrue(syncedCondition)
        THEN Return(0, "", sent, Nil)
        ELSE LET p == ensurePause(o, infoPtr, c.UnPausePollInterval, t, rnd, updateOk)
             IN  Return(0, IF p.err THEN "unable to pause" ELSE "",
                        sent \o p.updates, p.jitter)

\* The part of Reconcile that handles info.Pause == true.
ReconcilePaused(o, infoPtr, t, c, updateOk) ==
    LET info == Deref(infoPtr)
        u == ensureUnPause(o, infoPtr, t, updateOk)
        shouldUnpauseTime ==
            IF info.ShouldUnpauseTime # Nil
            THEN Deref(info.ShouldUnpauseTime)
            ELSE Deref(info.LastPauseTime) + Deref(c.UnPausePollInterval)
    IN  IF isUpdated(o, Deref(info.Object))
        THEN Return(0, IF u.err THEN "unable to unpause" ELSE "", u.updates, Nil)
        ELSE IF c.UnPausePollInterval # Nil
        THEN IF Before(t, shouldUnpauseTime)
             THEN Return(shouldUnpauseTime - t, "", <<>>, Nil)
             ELSE Return(0, IF u.err THEN "unable to unpause" ELSE "", u.updates, Nil)
        ELSE Return(0, "", <<>>, Nil)               \* keep pause

\* Reconcile on the resource o that r.Client.Get returned, at time t under
\* configuration c; update1Ok and update2Ok are the fates of the first and
\* the second cli.Update of the call, rnd what rand.Int63n returns.
Reconcile(o, t, c, rnd, update1Ok, update2Ok) ==
    LET pauseValue == AnnotationValue(o, AnnotationKeyReconciliationPaused)
        parsed == parsePauseInfo(o)
        infoPtr == IF parsed.info = Nil THEN Ptr(NewPauseInfo) ELSE parsed.info
        \* Never pause the deleted resource.
        d == IF IsDeleted(o)
             THEN ensureUnPause(o, infoPtr, t, update1Ok)
             ELSE NoUpdate(o, infoPtr)
        nextOk == IF d.updates = <<>> THEN update1Ok ELSE update2Ok
    IN  IF parsed.err
        THEN Return(0, "unable to parse pause info", <<>>, Nil)
        ELSE IF isPaused(pauseValue) /\ parsed.info = Nil
        THEN Return(0, "", <<>>, Nil)                \* ignore paused by other guy
        ELSE IF d.err
        THEN Return(0, "unable to unpause", d.updates, Nil)
        ELSE IF Deref(d.info).Pause
        THEN ReconcilePaused(d.obj, d.info, t, c, nextOk)
        ELSE ReconcileUnpaused(d.obj, d.info, t, c, rnd, nextOk, d.updates)

\* The resource in the API server after the updates of one call: the last
\* one the server accepted, if any.
Stored(o, updates) ==
    LET accepted == SelectSeq(updates, LAMBDA u : u.ok)
    IN  IF accepted = <<>> THEN o ELSE accepted[Len(accepted)].obj

---------------------------------------------------------------------------
(* The state machine. *)

NoEval == [ran |-> FALSE]

\* The record of one Reconcile call: what Get answered, the resource and the
\* time it ran on, and what it returned.
Eval(get, o, t, ret) ==
    [ran |-> TRUE, get |-> get, obj |-> o, now |-> t, ret |-> ret]

\* The resources the model starts from: as created by a user, never touched
\* by the reconciler and not deleted.
Statuses == {"True", "False", "Unknown"}
ConditionLists ==
    {<<>>} \cup {[ty \in tys |-> "True"] : tys \in {{TypeReady}, {TypeSynced}}}
      \cup {[ty \in {TypeReady, TypeSynced} |-> IF ty = TypeReady THEN s ELSE "True"] :
              s \in Statuses}
      \cup {[ty \in {TypeReady, TypeSynced} |-> IF ty = TypeSynced THEN s ELSE "True"] :
              s \in Statuses}

NewObject(annotations, conditions) ==
    [spec |-> Ptr([cidrBlock |-> "a"]),
     annotations |-> annotations,
     labels |-> Nil,
     deletionTimestamp |-> Nil,
     conditions |-> conditions]

\* The configurations: no poll interval, one of a second, one of a second
\* and a fraction, and one long enough for a tenth of it to be a tick or
\* more; a frozen time of zero or of a second.
LongPollInterval == 6 * TicksPerSecond
FractionalPollInterval == TicksPerSecond + 1
PollIntervals ==
    {Nil, Ptr(TicksPerSecond), Ptr(FractionalPollInterval), Ptr(LongPollInterval)}
FrozenTimeDurations == {0, TicksPerSecond}

Init ==
    /\ obj \in {NewObject(a, c) : a \in {Nil, Ptr([some |-> "value"])},
                                  c \in ConditionLists}
    /\ present = TRUE
    /\ now = 0
    /\ cfg \in [UnPausePollInterval : PollIntervals,
                FrozenTimeDuration : FrozenTimeDurations]
    /\ edits = 0
    /\ last = NoEval

\* rand.Int63n(int64(interval)) returns a number in [0, interval): the model
\* draws the least and the greatest.
RandRange == IF cfg.UnPausePollInterval = Nil
             THEN {0}
             ELSE {0, Deref(cfg.UnPausePollInterval) - 1}

\* An evaluation in which Get and every Update succeed.
ReconcileOk ==
    /\ present
    /\ \E rnd \in RandRange :
         LET ret == Reconcile(obj, now, cfg, rnd, TRUE, TRUE)
         IN  /\ obj' = Stored(obj, ret.updates)
             /\ last' = Eval("ok", obj, now, ret)
    /\ UNCHANGED <<present, now, cfg, edits>>

\* An evaluation in which the API server refuses an update (a version
\* conflict or a transient failure).
ReconcileUpdateFails ==
    /\ present
    /\ \E rnd \in RandRange, update1Ok \in BOOLEAN :
         LET ret == Reconcile(obj, now, cfg, rnd, update1Ok, FALSE)
         IN  /\ ret.err # ""
             /\ obj' = Stored(obj, ret.updates)
             /\ last' = Eval("ok", obj, now, ret)
    /\ UNCHANGED <<present, now, cfg, edits>>

\* An evaluation of a resource that is gone: Get answers NotFound and the
\* call returns success with no requeue.
ReconcileNotFound ==
    /\ ~present
    /\ last' = Eval("notfound", obj, now, Return(0, "", <<>>, Nil))
    /\ UNCHANGED <<obj, present, now, cfg, edits>>

Tick ==
    /\ now < MaxTime
    /\ now' = now + 1
    /\ last' = NoEval
    /\ UNCHANGED <<obj, present, cfg, edits>>

\* Writes by other actors.
External(o) ==
    /\ present
    /\ edits < MaxEdits
    /\ o # obj
    /\ obj' = o
    /\ edits' = edits + 1
    /\ last' = NoEval
    /\ UNCHANGED <<present, now, cfg>>

AnnotationsOf(o) == IF o.annotations = Nil THEN EmptyMap ELSE Deref(o.annotations)

ExternalSpec ==
    \E v \in {"a", "b"} : External([obj EXCEPT !.spec = Ptr([cidrBlock |-> v])])

ExternalAnnotate ==
    External([obj EXCEPT !.annotations = Ptr(MapSet(AnnotationsOf(obj), "some", "other"))])

ExternalLabel ==
    External([obj EXCEPT !.labels = Ptr([a |-> "b"])])

\* The provider reports the resource available and in sync
\* (xpv1.Available, xpv1.ReconcileSuccess), unavailable (xpv1.Unavailable)
\* or failing to reconcile (xpv1.ReconcileError).
Reported(ready, synced) ==
    [ty \in {TypeReady, TypeSynced} |-> IF ty = TypeReady THEN ready ELSE synced]

ExternalConditions ==
    \E c \in {Reported("True", "True"), Reported("False", "True"),
              Reported("True", "False")} :
        External([obj EXCEPT !.conditions = c])

ExternalDelete ==
    External([obj EXCEPT !.deletionTimestamp = Ptr("set")])

\* Another actor sets the pause annotation.
ExternalMarker ==
    \E v \in {"true", "false"} :
        External([obj EXCEPT !.annotations =
            Ptr(MapSet(AnnotationsOf(obj), AnnotationKeyReconciliationPaused, v))])

\* Another actor overwrites the pause-info annotation with text that is not JSON.
ExternalCorrupt ==
    External([obj EXCEPT !.annotations =
        Ptr(MapSet(AnnotationsOf(obj), AnnotationKeyPauseInfo, Malformed))])

\* The deleted resource is finalized and leaves the API server.
ExternalRemove ==
    /\ present
    /\ IsDeleted(obj)
    /\ present' = FALSE
    /\ obj' = Nil
    /\ last' = NoEval
    /\ UNCHANGED <<now, cfg, edits>>

\* The reconciler is restarted with another configuration.
Reconfigure ==
    /\ edits < MaxEdits
    /\ \E c \in [UnPausePollInterval : PollIntervals,
                  FrozenTimeDuration : FrozenTimeDurations] :
         /\ c # cfg
         /\ cfg' = c
    /\ edits' = edits + 1
    /\ last' = NoEval
    /\ UNCHANGED <<obj, present, now>>

Next ==
    \/ ReconcileOk
    \/ ReconcileUpdateFails
    \/ ReconcileNotFound
    \/ Tick
    \/ ExternalSpec
    \/ ExternalAnnotate
    \/ ExternalLabel
    \/ ExternalConditions
    \/ ExternalDelete
    \/ ExternalMarker
    \/ ExternalCorrupt
    \/ ExternalRemove
    \/ Reconfigure

Spec == Init /\ [][Next]_vars

---------------------------------------------------------------------------
(* What the properties speak about.  After a Reconcile call, last holds    *)
(* the resource the call read (last.obj), the time it ran at (last.now)    *)
(* and what it returned and sent (last.ret), and obj is the resource as    *)
(* the call left it in the API server.                                     *)

\* The latest step was a Reconcile call that read the resource.
Evaluated == last.ran /\ last.get = "ok"

\* The PauseInfo of a resource whose pause-info annotation decodes, the
\* zero PauseInfo when it has none.
HasPauseInfo(o) ==
    o.annotations # Nil /\ AnnotationKeyPauseInfo \in DOMAIN Deref(o.annotations)
Decodes(o) ==
    ~(HasPauseInfo(o) /\ Deref(o.annotations)[AnnotationKeyPauseInfo] = Malformed)
InfoOf(o) ==
    IF HasPauseInfo(o) /\ Decodes(o)
    THEN Unmarshal(Deref(o.annotations)[AnnotationKeyPauseInfo])
    ELSE NewPauseInfo

\* Paused by the reconciler: the decoded PauseInfo says pause.
EnginePaused(o) == Decodes(o) /\ InfoOf(o).Pause

\* Paused by somebody else: the marker is "true" and there is no PauseInfo.
PausedByOther(o) ==
    /\ AnnotationValue(o, AnnotationKeyReconciliationPaused) = "true"
    /\ ~HasPauseInfo(o)

\* The reconciler takes the resource for unpaused: Reconcile reaches its
\* info.Pause == false part with the PauseInfo it read.
EngineUnpaused(o) == Decodes(o) /\ ~PausedByOther(o) /\ ~InfoOf(o).Pause

Deleted(o) == o.deletionTimestamp # Nil

HasMarker(o) ==
    o.annotations # Nil /\ AnnotationKeyReconciliationPaused \in DOMAIN Deref(o.annotations)

ReadyAndSynced(o) ==
    /\ TypeReady \in DOMAIN o.conditions /\ o.conditions[TypeReady] = "True"
    /\ TypeSynced \in DOMAIN o.conditions /\ o.conditions[TypeSynced] = "True"

\* The annotations of a resource that are not the reconciler's own.
UserAnnotations(o) ==
    LET m == IF o.annotations = Nil THEN EmptyMap ELSE Deref(o.annotations)
    IN  [k \in DOMAIN m \ {AnnotationKeyReconciliationPaused, AnnotationKeyPauseInfo}
            |-> m[k]]

\* The resource differs from the snapshot in its desired state, in an
\* annotation that is not the reconciler's own, or in its labels.
Drifted(o, snapshot) ==
    \/ o.spec # snapshot.spec
    \/ UserAnnotations(o) # UserAnnotations(snapshot)
    \/ o.labels # snapshot.labels

Snapshot(o) == Deref(InfoOf(o).Object)

\* The operations of the updates a call sent, in order.
Ops(updates) == [i \in DOMAIN updates |-> updates[i].op]
Sent == Ops(last.ret.updates)
Accepted == Ops(SelectSeq(last.ret.updates, LAMBDA u : u.ok))

\* The state an unpause transition leaves: no marker, and a PauseInfo with
\* pause false, no snapshot, no scheduled unpause and the unpause time.
UnpausedState(o) ==
    /\ ~HasMarker(o)
    /\ Decodes(o)
    /\ ~InfoOf(o).Pause
    /\ InfoOf(o).Object = Nil
    /\ InfoOf(o).LastUnPauseTime # Nil

\* The state a pause transition leaves.
PausedState(o) ==
    /\ AnnotationValue(o, AnnotationKeyReconciliationPaused) = "true"
    /\ Decodes(o)
    /\ InfoOf(o).Pause

---------------------------------------------------------------------------
(* The claims. *)

\* C1: a deleted resource is never paused: an evaluation of a resource whose
\* deletion timestamp is set sends no pause update.  (The code sends one.)
C1_DeletedNeverPaused ==
    (Evaluated /\ Deleted(last.obj)) => \A i \in DOMAIN Sent : Sent[i] # "pause"

\* C2: an evaluation that finds the resource paused by the reconciler and
\* different from its snapshot in spec, annotations or labels, and whose
\* updates all succeed, leaves it unpaused: no marker, pause false, no
\* snapshot, the unpause time set.  (Fails on a deleted resource with a zero
\* frozen time, which the same call pauses again.)
C2_DriftLeavesUnpaused ==
    (/\ Evaluated
     /\ EnginePaused(last.obj)
     /\ Drifted(last.obj, Snapshot(last.obj))
     /\ last.ret.err = "")
      => UnpausedState(obj)

\* C3: an evaluation of a resource that is deleted and paused by the
\* reconciler sends the unpause update first, whether or not the resource
\* has drifted and whether or not the poll interval is due; once accepted,
\* the update leaves no marker and pause false.
C3_DeletedPausedIsUnpaused ==
    (Evaluated /\ Deleted(last.obj) /\ EnginePaused(last.obj))
      => /\ Sent # <<>>
         /\ Sent[1] = "unpause"
         /\ UnpausedState(last.ret.updates[1].obj)
         /\ last.ret.updates[1].ok => "unpause" = Accepted[1]

\* C3 witness: a deleted, paused resource without drift, with a poll
\* interval that is not yet due, was unpaused.
C3_Witness ==
    /\ Evaluated
    /\ Deleted(last.obj)
    /\ EnginePaused(last.obj)
    /\ ~Drifted(last.obj, Snapshot(last.obj))
    /\ ~isUpdated(last.obj, Snapshot(last.obj))
    /\ cfg.UnPausePollInterval # Nil
    /\ last.now < Deref(InfoOf(last.obj).ShouldUnpauseTime)
    /\ Accepted = <<"unpause">>
    /\ UnpausedState(obj)

\* C4: drift detection ignores the reconciler's own annotations: when the
\* resource and its snapshot differ in nothing but the marker and the
\* pause-info annotation, also when one of them has no annotation map at
\* all, isUpdated is false.  (It is true when only one has a map.)
C4_OwnMarkersAreNoDrift ==
    (/\ Evaluated
     /\ EnginePaused(last.obj)
     /\ ~Drifted(last.obj, Snapshot(last.obj)))
      => ~isUpdated(last.obj, Snapshot(last.obj))

OutsideFrozenTime(o, t) ==
    \/ InfoOf(o).LastUnPauseTime = Nil
    \/ t >= Deref(InfoOf(o).LastUnPauseTime) + cfg.FrozenTimeDuration

DueTime(o) ==
    IF InfoOf(o).ShouldUnpauseTime # Nil
    THEN Deref(InfoOf(o).ShouldUnpauseTime)
    ELSE Deref(InfoOf(o).LastPauseTime) + Deref(cfg.UnPausePollInterval)

PausedWithPollInterval ==
    /\ Evaluated
    /\ cfg.UnPausePollInterval # Nil
    /\ Accepted # <<>>
    /\ Accepted[Len(Accepted)] = "pause"

\* C9: the scheduled unpause time a pause at time T with poll interval I
\* persists is T + I + jitter (as a time written to JSON), jitter being the
\* value drawn at that pause.  (The code persists T + I.)
C9_JitterIsPersisted ==
    PausedWithPollInterval
      => InfoOf(obj).ShouldUnpauseTime =
           Ptr(MarshalTime(last.now + Deref(cfg.UnPausePollInterval)
                             + Deref(last.ret.jitter)))

\* The persisted ShouldUnpauseTime minus (the persisted LastPauseTime + I)
\* is at least 0 and less than I/10.
JitterInBound ==
    LET d == Deref(InfoOf(obj).ShouldUnpauseTime)
               - (Deref(InfoOf(obj).LastPauseTime)
                    + Deref(cfg.UnPausePollInterval))
    IN  0 <= d /\ 10 * d < Deref(cfg.UnPausePollInterval)

---------------------------------------------------------------------------
(* Liveness.  Evaluations keep coming (every update of the resource and    *)
(* every requested requeue enqueues one, and a failed call is retried), the *)
(* API server accepts an update in the end, and time passes.  Other actors *)
(* change the desired state and the conditions and delete the resource;    *)
(* the configuration stays as it is.                                       *)

LiveNext ==
    \/ ReconcileOk
    \/ ReconcileUpdateFails
    \/ Tick
    \/ ExternalSpec
    \/ ExternalConditions
    \/ ExternalDelete

\* ENABLED <<ReconcileOk>>_vars as a state predicate: some evaluation whose
\* updates all succeed changes the state.
ReconcileOkEnabled ==
    /\ present
    /\ \E rnd \in RandRange :
         LET ret == Reconcile(obj, now, cfg, rnd, TRUE, TRUE)
         IN  <<Stored(obj, ret.updates), Eval("ok", obj, now, ret)>> # <<obj, last>>

\* controller-runtime keeps calling Reconcile (the watch of SetupWithManager
\* and the RequeueAfter the call returns) and time passes.  The first
\* condition is weak fairness of ReconcileOk written out with the predicate
\* above in the place of ENABLED.
LiveSpec ==
    /\ Init
    /\ [][LiveNext]_vars
    /\ ([]<>(~ReconcileOkEnabled) \/ []<><<ReconcileOk>>_vars)
    /\ WF_vars(Tick)

\* Paused by the reconciler with a poll interval set, and due before the
\* clock of the model stops.
PausedAndDue ==
    /\ EnginePaused(obj)
    /\ cfg.UnPausePollInterval # Nil
    /\ DueTime(obj) <= MaxTime

\* The resource is unpaused, or the latest call unpaused it.
UnpauseHappened ==
    \/ UnpausedState(obj)
    \/ Evaluated /\ \E i \in DOMAIN Accepted : Accepted[i] = "unpause"

\* C8: with a poll interval set, a resource the reconciler has paused is
\* eventually unpaused, also when it never drifts and is never deleted.
C8_BoundedStaleness == PausedAndDue ~> UnpauseHappened

\* C8 witness: a resource that never drifted and was not deleted was left
\* paused past its due time and then unpaused.
C8_Witness ==
    /\ Evaluated
    /\ EnginePaused(last.obj)
    /\ ~Deleted(last.obj)
    /\ ~Drifted(last.obj, Snapshot(last.obj))
    /\ ~isUpdated(Snapshot(last.obj), last.obj)
    /\ edits = 0
    /\ cfg.UnPausePollInterval # Nil
    /\ last.now > DueTime(last.obj)
    /\ UnpausedState(obj)

---------------------------------------------------------------------------
(* Markers of other actors, and the annotations the reconciler writes. *)

\* The call sent nothing, asked for no requeue and returned no error, and the
\* resource is as the call read it.
NoOp ==
    /\ Sent = <<>>
    /\ last.ret.RequeueAfter = 0
    /\ last.ret.err = ""
    /\ obj = last.obj

\* C11: an evaluation of a resource whose marker is "true" and that has no
\* pause-info annotation sends no update and asks for no requeue, whether
\* or not the resource is deleted and whatever its conditions are.
C11_ExternalOverride == (Evaluated /\ PausedByOther(last.obj)) => NoOp

\* C11 witness: a resource paused by somebody else, deleted, Ready and
\* Synced, was evaluated and left alone.
C11_Witness ==
    /\ Evaluated
    /\ PausedByOther(last.obj)
    /\ Deleted(last.obj)
    /\ ReadyAndSynced(last.obj)
    /\ NoOp

\* The reconciler and everybody who leaves its two annotations alone.
OwnedNext ==
    \/ ReconcileOk
    \/ ReconcileUpdateFails
    \/ ReconcileNotFound
    \/ Tick
    \/ ExternalSpec
    \/ ExternalAnnotate
    \/ ExternalLabel
    \/ ExternalConditions
    \/ ExternalDelete
    \/ ExternalRemove
    \/ Reconfigure

OwnedSpec == Init /\ [][OwnedNext]_vars

\* The marker is "true" exactly when the PauseInfo says pause, and there is
\* no marker without a pause-info annotation.
MarkerMatchesPauseInfo(o) ==
    /\ (AnnotationValue(o, AnnotationKeyReconciliationPaused) = "true") <=> EnginePaused(o)
    /\ HasMarker(o) => (HasPauseInfo(o) /\ EnginePaused(o))

\* C12: when nobody else writes the two annotations, in every stored state
\* of the resource the marker is "true" if and only if the PauseInfo says
\* pause, and every update the reconciler sends carries the pause-info
\* annotation together with the matching marker (set with pause true,
\* removed with pause false).
C12_WrittenTogether ==
    /\ present => MarkerMatchesPauseInfo(obj)
    /\ Evaluated =>
         \A i \in DOMAIN last.ret.updates :
            /\ HasPauseInfo(last.ret.updates[i].obj)
            /\ MarkerMatchesPauseInfo(last.ret.updates[i].obj)

\* C12 witness: a resource the reconciler had paused was unpaused by one
\* update, which removed the marker and wrote pause false.
C12_Witness ==
    /\ Evaluated
    /\ PausedState(last.obj)
    /\ Accepted = <<"unpause">>
    /\ ~HasMarker(obj)
    /\ HasPauseInfo(obj)
    /\ ~InfoOf(obj).Pause

\* The PauseState invariants: pause true comes with a snapshot and the pause
\* time, pause false with no snapshot and no scheduled unpause time.
WellFormed(info) ==
    /\ info.Pause => (info.Object # Nil /\ info.LastPauseTime # Nil)
    /\ ~info.Pause => (info.Object = Nil /\ info.ShouldUnpauseTime = Nil)

\* C13: every PauseInfo the reconciler persists, and so every one that is
\* stored and decodes, has pause true with a snapshot and lastPauseTime, or
\* pause false with neither a snapshot nor a shouldUnpauseTime.
C13_PauseInfoWellFormed ==
    /\ (present /\ Decodes(obj)) => WellFormed(InfoOf(obj))
    /\ Evaluated =>
         \A i \in DOMAIN last.ret.updates :
            /\ Decodes(last.ret.updates[i].obj)
            /\ WellFormed(InfoOf(last.ret.updates[i].obj))

\* C13 witness: the unpause of a resource that had a snapshot and a
\* scheduled unpause time was stored.
C13_Witness ==
    /\ Evaluated
    /\ EnginePaused(last.obj)
    /\ InfoOf(last.obj).ShouldUnpauseTime # Nil
    /\ Accepted = <<"unpause">>
    /\ HasPauseInfo(obj)
    /\ InfoOf(obj).Object = Nil
    /\ InfoOf(obj).ShouldUnpauseTime = Nil
    /\ InfoOf(obj).LastPauseTime # Nil

\* C14: the snapshot a pause persists holds neither the marker nor the
\* pause-info annotation, whatever the resource carried when it was paused.
\* (ensurePause removes only the pause-info annotation before the snapshot
\* is marshalled: a marker that is there, with a value other than "true" or
\* set on a resource whose PauseInfo says pause false, stays in it.)
C14_SnapshotExcludesMarkers ==
    Evaluated =>
      \A i \in DOMAIN last.ret.updates :
         last.ret.updates[i].op = "pause"
           => /\ ~HasMarker(Snapshot(last.ret.updates[i].obj))
              /\ ~HasPauseInfo(Snapshot(last.ret.updates[i].obj))

\* C15: an evaluation of a resource that is paused by the reconciler, does
\* not differ from its snapshot in spec, user annotations or labels, is not
\* deleted, with no poll interval set, sends nothing, asks for no requeue
\* and leaves the resource paused.  (A resource that had no annotation map
\* when it was paused is taken for changed and unpaused.)
C15_PausedIsLeftAlone ==
    (/\ Evaluated
     /\ EnginePaused(last.obj)
     /\ ~Drifted(last.obj, Snapshot(last.obj))
     /\ ~Deleted(last.obj)
     /\ cfg.UnPausePollInterval = Nil)
      => (NoOp /\ EnginePaused(obj))

---------------------------------------------------------------------------
(* The two transitions called on their own, as TestPause calls them: on    *)
(* the stored resource, with no PauseInfo or with the one parsed from it.  *)

\* The record of one direct call: the arguments, and the resource and the
\* PauseInfo as they are in memory afterwards.
Called(op, infoPtr, r) ==
    [ran |-> TRUE, get |-> "direct", op |-> op, obj |-> obj, info |-> infoPtr,
     now |-> now, res |-> [obj |-> r.obj, info |-> r.info],
     ret |-> Return(0, IF r.err THEN "failed to update object" ELSE "",
                    r.updates, r.jitter)]

InfoArguments == {Nil, parsePauseInfo(obj).info}

CallEnsurePause ==
    /\ present
    /\ \E infoPtr \in InfoArguments, rnd \in RandRange, updateOk \in BOOLEAN :
         LET r == ensurePause(obj, infoPtr, cfg.UnPausePollInterval, now, rnd, updateOk)
         IN  /\ obj' = Stored(obj, r.updates)
             /\ last' = Called("ensurePause", infoPtr, r)
    /\ UNCHANGED <<present, now, cfg, edits>>

CallEnsureUnPause ==
    /\ present
    /\ \E infoPtr \in InfoArguments, updateOk \in BOOLEAN :
         LET r == ensureUnPause(obj, infoPtr, now, updateOk)
         IN  /\ obj' = Stored(obj, r.updates)
             /\ last' = Called("ensureUnPause", infoPtr, r)
    /\ UNCHANGED <<present, now, cfg, edits>>

TransitionNext ==
    \/ CallEnsurePause
    \/ CallEnsureUnPause
    \/ Tick
    \/ ExternalSpec
    \/ ExternalMarker

\* The transitions read neither the conditions nor FrozenTimeDuration.
TransitionInit ==
    /\ Init
    /\ obj.conditions = Reported("True", "True")
    /\ cfg.FrozenTimeDuration = 0

TransitionSpec == TransitionInit /\ [][TransitionNext]_vars

CalledDirectly(op) == last.ran /\ last.get = "direct" /\ last.op = op

\* The call sent no update and returned no error, and the resource and the
\* PauseInfo are what they were, in memory and in the API server.
NothingDone ==
    /\ last.ret.updates = <<>>
    /\ last.ret.err = ""
    /\ last.res.obj = last.obj
    /\ last.res.info = last.info
    /\ obj = last.obj

\* C16: ensurePause called with a PauseInfo that says pause, and
\* ensureUnPause called with no PauseInfo or with one that says pause false,
\* send no update and leave the resource, its marker included, and the
\* PauseInfo as they are.
C16_Idempotent ==
    /\ (/\ CalledDirectly("ensurePause")
        /\ last.info # Nil
        /\ Deref(last.info).Pause) => NothingDone
    /\ (/\ CalledDirectly("ensureUnPause")
        /\ (last.info = Nil \/ ~Deref(last.info).Pause)) => NothingDone

\* C16 witness: ensureUnPause was called with a PauseInfo that says pause
\* false on a resource that carries the marker "true", and left it there.
C16_Witness ==
    /\ CalledDirectly("ensureUnPause")
    /\ last.info # Nil
    /\ ~Deref(last.info).Pause
    /\ Deref(last.info).LastUnPauseTime # Nil
    /\ AnnotationValue(obj, AnnotationKeyReconciliationPaused) = "true"
    /\ NothingDone

---------------------------------------------------------------------------
(* Errors. *)

\* C17: an evaluation of a resource whose pause-info annotation is there
\* and does not decode returns an error, sends no update and asks for no
\* requeue, whatever the marker, the deletion timestamp and the conditions.
C17_MalformedState ==
    (Evaluated /\ ~Decodes(last.obj))
      => /\ last.ret.err # ""
         /\ Sent = <<>>
         /\ last.ret.RequeueAfter = 0
         /\ obj = last.obj

\* C17 witness: a Ready and Synced resource with the marker "true" and a
\* pause-info annotation that does not decode was evaluated.
C17_Witness ==
    /\ Evaluated
    /\ ~Decodes(last.obj)
    /\ AnnotationValue(last.obj, AnnotationKeyReconciliationPaused) = "true"
    /\ ReadyAndSynced(last.obj)
    /\ last.ret.err = "unable to parse pause info"

\* C18: when the API server refuses an update of a call (a version
\* conflict), the call goes on: it fetches the resource again and evaluates
\* it once more, so the refused update is not the last thing the call does
\* and the refusal is not what the call returns; the refused update leaves
\* the stored resource as it was.  (Reconcile returns the error of the
\* refused update at once; the next attempt is a new call by the
\* controller's work queue.)
C18_ConflictRetriedLocally ==
    Evaluated =>
      \A i \in DOMAIN last.ret.updates :
         ~last.ret.updates[i].ok
           => /\ i < Len(last.ret.updates)
              /\ last.ret.err = ""
              /\ (Accepted = <<>> => obj = last.obj)

---------------------------------------------------------------------------
(* After a pause. *)

\* The call has just paused the resource: its last update, a pause, is
\* stored.
JustPaused ==
    /\ Evaluated
    /\ Accepted # <<>>
    /\ Accepted[Len(Accepted)] = "pause"

\* C19: with no poll interval set, an evaluation of a resource as the pause
\* of the reconciler has just stored it sends nothing and leaves it paused,
\* whatever the resource looked like when it was paused.  (A resource that
\* had no annotation map is unpaused by that evaluation.)
C19_StablePause ==
    (JustPaused /\ ~Deleted(obj) /\ cfg.UnPausePollInterval = Nil)
      => Reconcile(obj, now, cfg, 0, TRUE, TRUE).updates = <<>>

\* C20: a marker "true" on a resource whose PauseInfo does not say pause was
\* set by somebody else; an evaluation of such a resource sends no update,
\* so it neither overwrites nor removes the marker, also when the resource
\* carries a PauseInfo with pause false from an earlier pause.  (With such
\* a PauseInfo the reconciler pauses the resource, writing the marker and a
\* PauseInfo of its own, and removes the marker at its next unpause.)
C20_ExternalMarkerKept ==
    (/\ Evaluated
     /\ AnnotationValue(last.obj, AnnotationKeyReconciliationPaused) = "true"
     /\ ~EnginePaused(last.obj))
      => /\ Sent = <<>>
         /\ AnnotationValue(obj, AnnotationKeyReconciliationPaused) = "true"
         /\ ~EnginePaused(obj)

---------------------------------------------------------------------------
(* Updates per call. *)

\* C21: a Reconcile call sends at most one update, so never an unpause and
\* a pause together, whatever the deletion timestamp, the PauseInfo, the
\* conditions and FrozenTimeDuration are.  (With FrozenTimeDuration zero, a
\* call on a deleted, paused, Ready and Synced resource sends the unpause and
\* then the pause.)
C21_OneUpdatePerCall == Evaluated => Len(Sent) <= 1

=============================================================================
